---- MODULE Spec2Model ----
(***************************************************************************)
(* A model of bert2/build-your-own-git: the loose object store (obj.rs),   *)
(* identifiers (sha.rs, util.rs), the pack reader and delta resolver       *)
(* (pack.rs), the zlib wrapper (zlib.rs) and the working-tree engine       *)
(* (wtree.rs).                                                             *)
(*                                                                         *)
(* Bytes are naturals 0..255; a byte string and a Rust String are both    *)
(* sequences of bytes (every String of the model is ASCII).                *)
(***************************************************************************)
EXTENDS Naturals, Sequences, FiniteSets, TLC

VARIABLES
    pc,      \* position of the running operation
    input,   \* the arguments the operation was called with
    pack,    \* bytes::Bytes cursor of parse_header / unpack_objects
    count,   \* object count returned by parse_header
    objs,    \* HashMap<Sha, RawObj> of unpack_objects
    store,   \* <git_dir>/objects: path -> file content
    wd,      \* the directory that holds .git: name -> file, directory or symlink
    ret      \* what the operation returned

vars == <<pc, input, pack, count, objs, store, wd, ret>>

(***************************************************************************)
(* Bounds of the model.                                                    *)
(***************************************************************************)
MaxEntries == 2
MaxDeltaLen == 4
MaxWrites == 2
MaxDirEntries == 2
MaxInits == 2
MaxFrames == 2
MaxRefs == 2
MaxTreeEntries == 2

(***************************************************************************)
(* Byte-string helpers.                                                    *)
(***************************************************************************)
Take(s, n) ==
    SubSeq(s, 1, n)

Drop(s, n) ==
    SubSeq(s, n + 1, Len(s))

RECURSIVE Concat(_)
Concat(ss) ==
    IF ss = <<>> THEN <<>> ELSE Head(ss) \o Concat(Tail(ss))

\* Iterator::position: the 1-based index of the first element in the set
\* good, 0 for None.
RECURSIVE PositionFrom(_, _, _)
PositionFrom(s, i, good) ==
    IF i > Len(s) THEN 0
    ELSE IF s[i] \in good THEN i
    ELSE PositionFrom(s, i + 1, good)

Position(s, good) ==
    PositionFrom(s, 1, good)

\* format!("{}", n) as ASCII bytes.
RECURSIVE Decimal(_)
Decimal(n) ==
    IF n < 10 THEN <<48 + n>> ELSE Decimal(n \div 10) \o <<48 + (n % 10)>>

\* u32::to_be_bytes / from_be_bytes.
be32(n) ==
    <<(n \div 16777216) % 256, (n \div 65536) % 256, (n \div 256) % 256, n % 256>>

from_be_bytes(b) ==
    ((b[1] * 256 + b[2]) * 256 + b[3]) * 256 + b[4]

\* u32::from_le_bytes of four bytes.
from_le_bytes(b) ==
    b[1] + 256 * (b[2] + 256 * (b[3] + 256 * b[4]))

(***************************************************************************)
(* util.rs and sha.rs.                                                     *)
(***************************************************************************)
ShaLen == 20
HexLen == 40

\* "0123456789abcdef"
HexChars ==
    <<48, 49, 50, 51, 52, 53, 54, 55, 56, 57, 97, 98, 99, 100, 101, 102>>

\* util::print_hex: format!("{:02x}") of every byte, concatenated.
RECURSIVE print_hex(_)
print_hex(bytes) ==
    IF bytes = <<>> THEN <<>>
    ELSE <<HexChars[(Head(bytes) \div 16) + 1], HexChars[(Head(bytes) % 16) + 1]>>
         \o print_hex(Tail(bytes))

HexValue(c) ==
    CHOOSE v \in 0..15 : HexChars[v + 1] = c

\* util::decode_hex on a string of lowercase hex digits of even length.
RECURSIVE decode_hex(_)
decode_hex(s) ==
    IF s = <<>> THEN <<>>
    ELSE <<HexValue(s[1]) * 16 + HexValue(s[2])>> \o decode_hex(Drop(s, 2))

\* The sha1 crate's Sha1::digest. The digest is external to the repository;
\* it is stood in for by a 20-byte Adler-style checksum, a deterministic
\* function of the bytes that depends on their values, order and number.
\* The sums of a run of bytes followed by k more bytes, from the sums l of
\* the run's first part and r of its last k bytes.
DigestJoin(l, r, k) ==
    <<(l[1] + r[1]) % 65521, (l[2] + k * l[1] + r[2]) % 65521>>

RECURSIVE DigestAcc(_, _, _)
DigestAcc(data, lo, hi) ==
    IF lo > hi THEN <<0, 0>>
    ELSE IF lo = hi THEN <<data[lo], data[lo]>>
    ELSE DigestJoin(DigestAcc(data, lo, (lo + hi) \div 2),
                    DigestAcc(data, ((lo + hi) \div 2) + 1, hi),
                    hi - ((lo + hi) \div 2))

Sha1Digest(data) ==
    LET s == DigestAcc(data, 1, Len(data))
        ab == <<(1 + s[1]) % 65521, (Len(data) + s[2]) % 65521>>
    IN  [i \in 1..ShaLen |->
            CASE i = 1 -> ab[1] \div 256
              [] i = 2 -> ab[1] % 256
              [] i = 3 -> ab[2] \div 256
              [] i = 4 -> ab[2] % 256
              [] i = 5 -> Len(data) % 256
              [] OTHER -> (ab[1] + i * ab[2]) % 256]

\* Sha::generate_raw
generate_raw(data) ==
    Sha1Digest(data)

\* Sha::generate
generate(data) ==
    print_hex(Sha1Digest(data))

\* Sha::validate_bytes
validate_bytes(b) ==
    Len(b) = ShaLen

\* Sha::validate
validate(s) ==
    Len(s) = HexLen

\* Sha::to_bytes
to_bytes(sha) ==
    decode_hex(sha)

(***************************************************************************)
(* zlib.rs. The deflate codec is external; it is stood in for by a         *)
(* self-delimiting stored format: the byte 0x78, the length, the bytes.    *)
(* inflate reports the number of input bytes it consumed and ignores what  *)
(* follows the stream, as ZlibDecoder does.                                *)
(***************************************************************************)
ZlibMagic == 120

deflate(data) ==
    <<ZlibMagic, Len(data)>> \o data

inflate(in) ==
    IF Len(in) < 2 \/ in[1] # ZlibMagic \/ Len(in) < 2 + in[2]
    THEN [kind |-> "err", content |-> <<>>, total_in |-> 0]
    ELSE [kind |-> "ok", content |-> SubSeq(in, 3, 2 + in[2]), total_in |-> 2 + in[2]]

(***************************************************************************)
(* obj.rs: object types, the loose-object writer and reader.               *)
(***************************************************************************)
ObjTypes ==
    {"Commit", "Tree", "Blob", "Tag"}

Str_commit == <<99, 111, 109, 109, 105, 116>>
Str_tree == <<116, 114, 101, 101>>
Str_blob == <<98, 108, 111, 98>>
Str_tag == <<116, 97, 103>>
SP == 32
NUL == 0
LF == 10

Panic ==
    [kind |-> "panic"]

Err(msg) ==
    [kind |-> "err", msg |-> msg]

\* ObjType::as_str: the type word, or a panic for Tag.
as_str(obj_type) ==
    CASE obj_type = "Commit" -> [kind |-> "ok", str |-> Str_commit]
      [] obj_type = "Tree" -> [kind |-> "ok", str |-> Str_tree]
      [] obj_type = "Blob" -> [kind |-> "ok", str |-> Str_blob]
      [] OTHER -> Panic

\* impl TryFrom<&str> for ObjType
ObjTypeFromStr(s) ==
    CASE s = Str_commit -> [kind |-> "ok", obj_type |-> "Commit"]
      [] s = Str_tree -> [kind |-> "ok", obj_type |-> "Tree"]
      [] s = Str_blob -> [kind |-> "ok", obj_type |-> "Blob"]
      [] s = Str_tag -> [kind |-> "ok", obj_type |-> "Tag"]
      [] OTHER -> Err("Unkown object type")

\* create_file / open_file: objects/<id[0..2]>/<id[2..]>
ObjPath(id) ==
    <<Take(id, 2), Drop(id, 2)>>

\* obj::write: File::create truncates the file at the id's path, write_file
\* fills it with the deflated content.
write(s, id, content) ==
    (ObjPath(id) :> deflate(content)) @@ s

\* The bytes write_gen hashes and stores: "<type> <len>\0" + content.
Framed(type_str, content) ==
    type_str \o <<SP>> \o Decimal(Len(content)) \o <<NUL>> \o content

\* obj::write_gen, on the store s: the id and the store afterwards.
write_gen(s, obj_type, content) ==
    LET t == as_str(obj_type)
    IN  IF t.kind = "panic" THEN [kind |-> "panic", id |-> <<>>, store |-> s]
        ELSE LET bytes == Framed(t.str, content)
                 id == generate(bytes)
             IN  [kind |-> "ok", id |-> id, store |-> write(s, id, bytes)]

\* str::from_utf8 succeeds on ASCII; the model's inputs hold no multi-byte
\* sequences, so any byte above 0x7f is an invalid one.
IsUtf8(b) ==
    \A i \in 1..Len(b) : b[i] < 128

\* slice.splitn(2, sep): the part before the first sep and, if there is a
\* sep, the part after it.
SplitN2(b, sep) ==
    LET p == Position(b, {sep})
    IN  IF p = 0 THEN <<b>> ELSE <<Take(b, p - 1), Drop(b, p)>>

\* slice.split(sep): every part.
RECURSIVE Split(_, _)
Split(b, sep) ==
    LET p == Position(b, {sep})
    IN  IF p = 0 THEN <<b>> ELSE <<Take(b, p - 1)>> \o Split(Drop(b, p), sep)

RECURSIVE DigitsValue(_, _)
DigitsValue(d, acc) ==
    IF d = <<>> THEN acc ELSE DigitsValue(Tail(d), acc * 10 + (Head(d) - 48))

\* usize::from_str / u32::from_str: an optional '+', then one or more
\* decimal digits (strings of the model stay below ten digits).
ParseUInt(b) ==
    LET d == IF b # <<>> /\ b[1] = 43 THEN Tail(b) ELSE b
    IN  IF d = <<>> \/ \E i \in 1..Len(d) : d[i] \notin 48..57
        THEN [kind |-> "err", val |-> 0]
        ELSE [kind |-> "ok", val |-> DigitsValue(d, 0)]

\* parse_commit: only the first line, "tree <data>", is parsed and kept.
parse_commit(bytes) ==
    LET end == Position(bytes, {LF})
    IN  IF end = 0 THEN Err("Unexpected EOF.")
        ELSE LET line == SplitN2(Take(bytes, end - 1), SP)
             IN  IF ~IsUtf8(line[1]) THEN Err("Failed to parse label")
                 ELSE IF line[1] # Str_tree THEN Err("Expected label")
                 ELSE IF Len(line) < 2 THEN Err("Missing data")
                 ELSE IF ~IsUtf8(line[2]) THEN Err("Invalid data")
                 ELSE [kind |-> "ok", obj |-> [type |-> "Commit", tree |-> line[2]]]

\* parse_tree: entries are read while a NUL byte is found in what remains.
RECURSIVE iterate_tree(_, _)
iterate_tree(bytes, entries) ==
    LET utf8_end == Position(bytes, {NUL})
    IN  IF utf8_end = 0 THEN [kind |-> "ok", obj |-> [type |-> "Tree", entries |-> entries]]
        ELSE LET mode_name == Split(Take(bytes, utf8_end - 1), SP)
                 mode == ParseUInt(mode_name[1])
             IN  IF ~IsUtf8(mode_name[1]) \/ mode.kind = "err"
                 THEN Err("Invalid mode in tree entry")
                 ELSE IF Len(mode_name) < 2 THEN Err("Missing filename in tree entry.")
                 ELSE IF ~IsUtf8(mode_name[2]) THEN Err("Invalid filename in tree entry")
                 ELSE IF Len(bytes) < utf8_end + ShaLen THEN Panic
                 ELSE iterate_tree(
                          Drop(bytes, utf8_end + ShaLen),
                          Append(entries,
                                 [mode |-> mode.val, name |-> mode_name[2],
                                  id |-> print_hex(SubSeq(bytes, utf8_end + 1,
                                                          utf8_end + ShaLen))]))

parse_tree(bytes) ==
    iterate_tree(bytes, <<>>)

\* obj::read_gen on the store s.
read_gen(s, id) ==
    IF ObjPath(id) \notin DOMAIN s THEN Err("Failed to read object")
    ELSE LET inf == inflate(s[ObjPath(id)])
             bytes == inf.content
             header_end == Position(bytes, {NUL})
             header == SplitN2(Take(bytes, header_end - 1), SP)
             obj_type == ObjTypeFromStr(header[1])
             obj_size == ParseUInt(header[2])
             payload == Drop(bytes, header_end)
         IN  IF inf.kind = "err" THEN Err("inflate")
             ELSE IF header_end = 0 THEN Err("Object has no header.")
             ELSE IF ~IsUtf8(header[1]) THEN Err("Invalid type spec")
             ELSE IF obj_type.kind = "err" THEN obj_type
             ELSE IF Len(header) < 2 THEN Err("Missing size spec")
             ELSE IF ~IsUtf8(header[2]) \/ obj_size.kind = "err" THEN Err("Invalid size spec")
             ELSE IF Len(payload) # obj_size.val THEN Err("size of object don't match")
             ELSE CASE obj_type.obj_type = "Commit" -> parse_commit(payload)
                    [] obj_type.obj_type = "Tree" -> parse_tree(payload)
                    [] obj_type.obj_type = "Blob" ->
                         [kind |-> "ok", obj |-> [type |-> "Blob", content |-> payload]]
                    [] OTHER -> Err("Unsupported object type")

(***************************************************************************)
(* pack.rs, module fmt: the delta instruction interpreter.                 *)
(***************************************************************************)
\* has_no_cont_bit: the bytes with bit 7 clear.
NoContBit ==
    0..127

\* Bit i of a byte.
Bit(byte, i) ==
    (byte \div (2 ^ i)) % 2 = 1

RECURSIVE VarIntValue(_, _)
VarIntValue(b, i) ==
    IF b = <<>> THEN 0
    ELSE (Head(b) % 128) * (2 ^ (7 * i)) + VarIntValue(Tail(b), i + 1)

\* parse_var_int: the bytes up to the first one without a continuation bit,
\* seven bits each, low-order group first; rest is what follows them.
parse_var_int(bytes) ==
    LET var_int_end == Position(bytes, NoContBit)
    IN  IF var_int_end = 0
        THEN [kind |-> "err", val |-> 0, rest |-> bytes]
        ELSE [kind |-> "ok", val |-> VarIntValue(Take(bytes, var_int_end), 0),
              rest |-> Drop(bytes, var_int_end)]

\* The operand bytes of a copy instruction that the bitmap bits lo..hi
\* select, read in order; an unselected byte is 0. split_to(1) on an empty
\* cursor panics.
RECURSIVE ReadSelected(_, _, _, _, _)
ReadSelected(instr, i, hi, bytes, acc) ==
    IF i > hi THEN [kind |-> "ok", vals |-> acc, rest |-> bytes]
    ELSE IF ~Bit(instr, i) THEN ReadSelected(instr, i + 1, hi, bytes, Append(acc, 0))
    ELSE IF bytes = <<>> THEN [kind |-> "panic", vals |-> acc, rest |-> bytes]
    ELSE ReadSelected(instr, i + 1, hi, Tail(bytes), Append(acc, Head(bytes)))

\* parse_copy_instr
parse_copy_instr(bytes) ==
    LET instr == bytes[1]
        offset == ReadSelected(instr, 0, 3, Tail(bytes), <<>>)
        len == ReadSelected(instr, 4, 6, offset.rest, <<>>)
    IN  IF offset.kind = "panic" \/ len.kind = "panic"
        THEN [kind |-> "panic", instr |-> [op |-> "None"], rest |-> <<>>]
        ELSE [kind |-> "ok",
              instr |-> [op |-> "Copy",
                         start |-> from_le_bytes(offset.vals),
                         end |-> from_le_bytes(offset.vals)
                                 + from_le_bytes(Append(len.vals, 0))],
              rest |-> len.rest]

\* parse_insert_instr: split_to(len) past the end of the cursor panics.
parse_insert_instr(bytes) ==
    LET len == bytes[1] % 128
    IN  IF Len(bytes) - 1 < len
        THEN [kind |-> "panic", instr |-> [op |-> "None"], rest |-> <<>>]
        ELSE [kind |-> "ok",
              instr |-> [op |-> "Insert", data |-> SubSeq(bytes, 2, 1 + len)],
              rest |-> Drop(bytes, 1 + len)]

\* parse_instr, on a cursor that is not empty.
parse_instr(bytes) ==
    IF bytes[1] = 0 THEN [kind |-> "err", instr |-> [op |-> "None"], rest |-> bytes]
    ELSE IF bytes[1] >= 128 THEN parse_copy_instr(bytes)
    ELSE parse_insert_instr(bytes)

SourceLenOk_Unchecked(source_len, base) ==
    TRUE

\* undeltify's check of the declared source length.
SourceLenOk(source_len, base) ==
    source_len = Len(base)

\* undeltify's check of the declared target length.
TargetLenOk(target_len, content) ==
    target_len = Len(content)

\* The instruction loop of undeltify; &base[start..end] panics past the
\* end of the base.
RECURSIVE ApplyInstrs(_, _, _)
ApplyInstrs(delta, base, content) ==
    IF delta = <<>> THEN [kind |-> "ok", content |-> content]
    ELSE LET i == parse_instr(delta)
         IN  IF i.kind = "err" THEN [kind |-> "err", content |-> <<>>]
             ELSE IF i.kind = "panic" THEN [kind |-> "panic", content |-> <<>>]
             ELSE IF i.instr.op = "Insert"
             THEN ApplyInstrs(i.rest, base, content \o i.instr.data)
             ELSE IF i.instr.end > Len(base) THEN [kind |-> "panic", content |-> <<>>]
             ELSE ApplyInstrs(i.rest, base,
                              content \o SubSeq(base, i.instr.start + 1, i.instr.end))

\* undeltify
undeltify(delta, base) ==
    LET source_len == parse_var_int(delta)
        target_len == parse_var_int(source_len.rest)
        applied == ApplyInstrs(target_len.rest, base, <<>>)
    IN  IF source_len.kind = "err" \/ target_len.kind = "err"
        THEN [kind |-> "err", msg |-> "Never ending variable sized integer.", content |-> <<>>]
        ELSE IF ~SourceLenOk(source_len.val, base)
        THEN [kind |-> "err", msg |-> "Delta source length", content |-> <<>>]
        ELSE IF applied.kind = "panic"
        THEN [kind |-> "panic", msg |-> "", content |-> <<>>]
        ELSE IF applied.kind = "err"
        THEN [kind |-> "err", msg |-> "reserved delta instruction 0x0", content |-> <<>>]
        ELSE IF ~TargetLenOk(target_len.val, applied.content)
        THEN [kind |-> "err", msg |-> "Delta target length", content |-> <<>>]
        ELSE [kind |-> "ok", msg |-> "", content |-> applied.content]

(***************************************************************************)
(* pack.rs, module fmt: the pack header.                                   *)
(***************************************************************************)
Str_PACK == <<80, 65, 67, 75>>
PackVersion == 2

ChecksumOk_Unchecked(packsum, checksum) ==
    TRUE

\* The comparison of parse_checksum: packsum != checksum fails the pack.
ChecksumOk(packsum, checksum) ==
    packsum = checksum

\* parse_checksum: split_off(len - 20) takes the trailer off the cursor
\* (and panics on a pack shorter than 20 bytes), then the digests are
\* compared in their hex form.
parse_checksum(p) ==
    IF Len(p) < ShaLen THEN [kind |-> "panic", pack |-> p]
    ELSE LET rest == Take(p, Len(p) - ShaLen)
             checksum == print_hex(Drop(p, Len(p) - ShaLen))
             packsum == generate(rest)
         IN  IF ChecksumOk(packsum, checksum)
             THEN [kind |-> "ok", pack |-> rest]
             ELSE [kind |-> "err", pack |-> rest]

\* parse_signature: split_to(4) panics on a cursor shorter than 4 bytes.
parse_signature(p) ==
    IF Len(p) < 4 THEN [kind |-> "panic", pack |-> p]
    ELSE IF Take(p, 4) = Str_PACK THEN [kind |-> "ok", pack |-> Drop(p, 4)]
    ELSE [kind |-> "err", pack |-> Drop(p, 4)]

\* parse_version
parse_version(p) ==
    IF Len(p) < 4 THEN [kind |-> "panic", pack |-> p]
    ELSE IF from_be_bytes(Take(p, 4)) = PackVersion THEN [kind |-> "ok", pack |-> Drop(p, 4)]
    ELSE [kind |-> "err", pack |-> Drop(p, 4)]

\* parse_obj_count
parse_obj_count(p) ==
    IF Len(p) < 4 THEN [kind |-> "panic", pack |-> p, n |-> 0]
    ELSE [kind |-> "ok", pack |-> Drop(p, 4), n |-> from_be_bytes(Take(p, 4))]

\* parse_header: checksum, signature, version, count, each step ending the
\* function when it fails. step names the step that ended it.
parse_header(p) ==
    LET c == parse_checksum(p)
        s == parse_signature(c.pack)
        v == parse_version(s.pack)
        n == parse_obj_count(v.pack)
    IN  IF c.kind # "ok" THEN [kind |-> c.kind, step |-> "checksum", pack |-> c.pack, n |-> 0]
        ELSE IF s.kind # "ok" THEN [kind |-> s.kind, step |-> "signature", pack |-> s.pack, n |-> 0]
        ELSE IF v.kind # "ok" THEN [kind |-> v.kind, step |-> "version", pack |-> v.pack, n |-> 0]
        ELSE [kind |-> n.kind, step |-> "count", pack |-> n.pack, n |-> n.n]

(***************************************************************************)
(* pack.rs, module fmt: unpack_objects.                                    *)
(***************************************************************************)
EntryTypeValues ==
    {1, 2, 3, 4, 6, 7}

\* impl TryFrom<EntryType> for ObjType
ObjTypeOfEntry(t) ==
    CASE t = 1 -> "Commit"
      [] t = 2 -> "Tree"
      [] t = 3 -> "Blob"
      [] t = 4 -> "Tag"

\* (first & 0b01110000) >> 4
EntryTypeBits(first) ==
    (first \div 16) % 8

\* The entry types whose payload unpack_objects inflates and writes.
RawEntryTypes ==
    {1, 2, 3}

Step(kind, msg, p, o, s) ==
    [kind |-> kind, msg |-> msg, pack |-> p, objs |-> o, store |-> s]

\* An unpack_objects that advances the cursor one byte too far.
WriteAndCache_Overrun(p, o, s, obj_type, content, deflated_len) ==
    LET w == write_gen(s, obj_type, content)
    IN  Step("cont", "", Drop(p, deflated_len + 1),
             (w.id :> [obj_type |-> obj_type, content |-> content]) @@ o,
             w.store)

\* objs.insert(id, obj) after obj::write(git_dir, obj_type, content), then
\* pack.advance(deflated_len).
WriteAndCache(p, o, s, obj_type, content, deflated_len) ==
    LET w == write_gen(s, obj_type, content)
    IN  IF w.kind = "panic" THEN Step("panic", "", p, o, s)
        ELSE Step("cont", "", Drop(p, deflated_len),
                  (w.id :> [obj_type |-> obj_type, content |-> content]) @@ o,
                  w.store)

UnknownBase_Ignored(p, o, s) ==
    Step("cont", "", p, o, s)

\* The None arm of objs.get(&base_id).
UnknownBase(p, o, s) ==
    Step("err", "Found delta referencing unknown base object", p, o, s)

\* The ObjRefDelta arm, on the cursor p after the entry's prefix.
RefDeltaEntry(p, o, s) ==
    IF Len(p) < ShaLen THEN Step("panic", "", p, o, s)
    ELSE LET base_id == print_hex(Take(p, ShaLen))
             p2 == Drop(p, ShaLen)
             inf == inflate(p2)
         IN  IF inf.kind = "err" THEN Step("err", "inflate", p2, o, s)
             ELSE IF base_id \notin DOMAIN o THEN UnknownBase(p2, o, s)
             ELSE LET base == o[base_id]
                      u == undeltify(inf.content, base.content)
                  IN  IF u.kind = "panic" THEN Step("panic", "", p2, o, s)
                      ELSE IF u.kind = "err" THEN Step("err", u.msg, p2, o, s)
                      ELSE WriteAndCache(p2, o, s, base.obj_type, u.content, inf.total_in)

\* The arm of the raw object types, on the cursor p after the prefix.
RawEntry(p, o, s, t) ==
    LET inf == inflate(p)
    IN  IF inf.kind = "err" THEN Step("err", "inflate", p, o, s)
        ELSE WriteAndCache(p, o, s, ObjTypeOfEntry(t), inf.content, inf.total_in)

\* One iteration of the loop of unpack_objects on cursor p, table o and
\* store s: "break" when the cursor is empty, "cont" after an entry.
unpack_entry(p, o, s) ==
    IF p = <<>> THEN Step("break", "", p, o, s)
    ELSE LET t == EntryTypeBits(p[1])
             obj_start == Position(p, NoContBit)
             p1 == Drop(p, obj_start)
         IN  IF t \notin EntryTypeValues THEN Step("err", "Unknown entry type", p, o, s)
             ELSE IF obj_start = 0
             THEN Step("err", "Never ending variable sized integer.", p, o, s)
             ELSE IF t \in RawEntryTypes THEN RawEntry(p1, o, s, t)
             ELSE IF t = 7 THEN RefDeltaEntry(p1, o, s)
             ELSE Step("err", "Unsupported entry type", p1, o, s)

\* The command that drives the pack reader (clone): parse_header, then
\* unpack_objects on the same cursor, each error ending the command.
AfterHeader(kind) ==
    CASE kind = "ok" -> "unpack_objects"
      [] kind = "err" -> "failed"
      [] OTHER -> "panicked"

(***************************************************************************)
(* Packs the reader is run on: a header, up to MaxEntries entries drawn    *)
(* from PackEntries, and a trailer.                                        *)
(***************************************************************************)
BlobA == <<65>>
BlobAB == <<65, 66>>
BlobZ == <<90>>
CommitPayload == Str_tree \o <<SP, 49, LF>>

\* A delta that turns BlobA into BlobAB: source length 1, target length 2,
\* copy 1 byte from offset 0, insert "B".
DeltaAtoAB == <<1, 2, 144, 1, 1, 66>>

\* The raw 20-byte id of a blob.
BlobIdBytes(content) ==
    Sha1Digest(Framed(Str_blob, content))

\* A pack entry with a one-byte prefix: type and size, then the payload.
PackEntry(t, content) ==
    <<t * 16 + Len(content)>> \o deflate(content)

\* The same with a two-byte prefix (a continuation byte, size bits 4.. zero).
PackEntryLong(t, content) ==
    <<128 + t * 16 + Len(content), 0>> \o deflate(content)

RefDeltaPackEntry(base_id, delta) ==
    <<7 * 16 + Len(delta)>> \o base_id \o deflate(delta)

PackEntries ==
    { PackEntry(3, BlobA),
      PackEntry(3, BlobAB),
      PackEntryLong(1, CommitPayload),
      PackEntry(2, <<>>),
      PackEntry(4, BlobZ),
      PackEntry(6, BlobZ),
      PackEntry(5, BlobZ),
      RefDeltaPackEntry(BlobIdBytes(BlobA), DeltaAtoAB),
      RefDeltaPackEntry(BlobIdBytes(BlobZ), DeltaAtoAB) }

EntrySeqs ==
    UNION { [1..n -> PackEntries] : n \in 0..MaxEntries }

PackBody(sig, ver, n, entries) ==
    sig \o be32(ver) \o be32(n) \o Concat(entries)

WithTrailer(body) ==
    body \o Sha1Digest(body)

WithBadTrailer(body) ==
    body \o [i \in 1..ShaLen |-> 255 - Sha1Digest(body)[i]]

\* A wrong signature.
Str_KCAP == <<75, 67, 65, 80>>

\* Well-formed packs whose header count is any of 0..MaxEntries, packs with
\* a bad trailer, signature or version, and packs too short for a header.
Packs ==
    { WithTrailer(PackBody(Str_PACK, PackVersion, n, es)) :
          n \in 0..MaxEntries, es \in EntrySeqs }
    \cup { WithBadTrailer(PackBody(Str_PACK, PackVersion, Len(es), es)) : es \in EntrySeqs }
    \cup { WithBadTrailer(PackBody(Str_KCAP, PackVersion, Len(es), es)) : es \in EntrySeqs }
    \cup { WithTrailer(PackBody(Str_KCAP, PackVersion, Len(es), es)) : es \in EntrySeqs }
    \cup { WithTrailer(PackBody(Str_PACK, PackVersion + 1, Len(es), es)) : es \in EntrySeqs }
    \cup { <<>>, Str_PACK, WithTrailer(<<>>), WithTrailer(Str_PACK) }

EmptyStore ==
    <<>>

\* The object stores a pack is unpacked into: an empty one, and one that
\* already holds BlobA.
Stores ==
    { EmptyStore, write_gen(EmptyStore, "Blob", BlobA).store }

NoRet ==
    [kind |-> "none"]

(***************************************************************************)
(* SpecPack: parse_header, then the loop of unpack_objects.                *)
(***************************************************************************)
InitPack ==
    /\ pc = "parse_header"
    /\ input \in [pack : Packs, store : Stores]
    /\ pack = input.pack
    /\ store = input.store
    /\ count = 0
    /\ objs = <<>>
    /\ wd = <<>>
    /\ ret = NoRet

ParseHeader ==
    /\ pc = "parse_header"
    /\ LET r == parse_header(pack)
       IN  /\ pc' = AfterHeader(r.kind)
           /\ pack' = r.pack
           /\ count' = r.n
           /\ ret' = IF r.kind = "ok" THEN NoRet ELSE [kind |-> r.kind, msg |-> r.step]
    /\ UNCHANGED <<input, objs, store, wd>>

UnpackObjects ==
    /\ pc = "unpack_objects"
    /\ LET r == unpack_entry(pack, objs, store)
       IN  /\ pc' = CASE r.kind = "cont" -> "unpack_objects"
                      [] r.kind = "break" -> "done"
                      [] r.kind = "err" -> "failed"
                      [] OTHER -> "panicked"
           /\ pack' = r.pack
           /\ objs' = r.objs
           /\ store' = r.store
           /\ ret' = CASE r.kind = "cont" -> NoRet
                       [] r.kind = "break" -> [kind |-> "ok", val |-> Cardinality(DOMAIN r.objs)]
                       [] OTHER -> [kind |-> r.kind, msg |-> r.msg]
    /\ UNCHANGED <<input, count, wd>>

NextPack ==
    ParseHeader \/ UnpackObjects

SpecPack ==
    InitPack /\ [][NextPack]_vars

(***************************************************************************)
(* SpecDelta: undeltify on every delta of at most MaxDeltaLen bytes over   *)
(* DeltaBytes, against each base of Bases.                                 *)
(***************************************************************************)
\* 0x00 (reserved / zero operand), small lengths, and the copy instructions
\* 0x80 (no operand bytes), 0x90 (one size byte), 0x91 (one offset byte and
\* one size byte).
DeltaBytes ==
    {0, 1, 2, 128, 144, 145}

Deltas ==
    UNION { [1..n -> DeltaBytes] : n \in 0..MaxDeltaLen }

Bases ==
    {BlobA, BlobAB}

InitDelta ==
    /\ pc = "undeltify"
    /\ input \in [delta : Deltas, base : Bases]
    /\ pack = <<>>
    /\ store = EmptyStore
    /\ count = 0
    /\ objs = <<>>
    /\ wd = <<>>
    /\ ret = NoRet

Undeltify ==
    /\ pc = "undeltify"
    /\ pc' = "done"
    /\ ret' = undeltify(input.delta, input.base)
    /\ UNCHANGED <<input, pack, count, objs, store, wd>>

NextDelta ==
    Undeltify

SpecDelta ==
    InitDelta /\ [][NextDelta]_vars

(***************************************************************************)
(* SpecObj: at most MaxWrites calls of write_gen, and reads of the ids it  *)
(* returned, on a store that starts empty.                                 *)
(***************************************************************************)
Str_author == <<97, 117, 116, 104, 111, 114>>
Str_committer == <<99, 111, 109, 109, 105, 116, 116, 101, 114>>
Str_100644 == <<49, 48, 48, 54, 52, 52>>

\* "tree 1\nauthor x\ncommitter x\n\nm\n"
CommitFull ==
    Str_tree \o <<SP, 49, LF>> \o Str_author \o <<SP, 120, LF>>
    \o Str_committer \o <<SP, 120, LF, LF, 109, LF>>

\* "100644 a\0" and the id of BlobA
TreeOne ==
    Str_100644 \o <<SP, 97, NUL>> \o BlobIdBytes(BlobA)

\* "100644 a b\0" and the id of BlobA: a file named "a b"
TreeSpaced ==
    Str_100644 \o <<SP, 97, SP, 98, NUL>> \o BlobIdBytes(BlobA)

\* The objects of the model: each payload is a well-formed payload of its type.
Objects ==
    { [obj_type |-> "Blob", content |-> BlobA],
      [obj_type |-> "Blob", content |-> BlobAB],
      [obj_type |-> "Commit", content |-> CommitPayload],
      [obj_type |-> "Commit", content |-> CommitFull],
      [obj_type |-> "Tree", content |-> <<>>],
      [obj_type |-> "Tree", content |-> TreeOne],
      [obj_type |-> "Tree", content |-> TreeSpaced],
      [obj_type |-> "Tag", content |-> BlobZ] }

InitObj ==
    /\ pc = "idle"
    /\ input = [op |-> "none"]
    /\ pack = <<>>
    /\ store = EmptyStore
    /\ count = 0
    /\ objs = <<>>
    /\ wd = <<>>
    /\ ret = NoRet

\* write_gen(git_dir, obj_type, content); count counts the calls.
WriteGen ==
    /\ pc \in {"idle", "written", "read"}
    /\ count < MaxWrites
    /\ \E o \in Objects :
          LET w == write_gen(store, o.obj_type, o.content)
          IN  /\ input' = [op |-> "write_gen", obj |-> o, before |-> store]
              /\ store' = w.store
              /\ ret' = [kind |-> w.kind, id |-> w.id]
              /\ pc' = IF w.kind = "panic" THEN "panicked" ELSE "written"
    /\ count' = count + 1
    /\ UNCHANGED <<pack, objs, wd>>

\* read_gen(git_dir, id) of the id the last write_gen returned.
ReadGen ==
    /\ pc = "written"
    /\ input' = [op |-> "read_gen", obj |-> input.obj, before |-> store]
    /\ ret' = read_gen(store, ret.id)
    /\ pc' = "read"
    /\ UNCHANGED <<pack, count, objs, store, wd>>

NextObj ==
    WriteGen \/ ReadGen

SpecObj ==
    InitObj /\ [][NextObj]_vars

(***************************************************************************)
(* wtree.rs: write_tree. A directory is a function from entry names to     *)
(* nodes: [kind |-> "file", content], [kind |-> "dir", entries] or         *)
(* [kind |-> "symlink"].                                                   *)
(***************************************************************************)
Str_dotgit == <<46, 103, 105, 116>>
Str_040000 == <<48, 52, 48, 48, 48, 48>>

\* Ord for String: byte-wise lexicographic order.
RECURSIVE StrLess(_, _)
StrLess(a, b) ==
    IF b = <<>> THEN FALSE
    ELSE IF a = <<>> THEN TRUE
    ELSE IF Head(a) # Head(b) THEN Head(a) < Head(b)
    ELSE StrLess(Tail(a), Tail(b))

\* The key dir_entries.sort_by_key(util::name) sorts an entry by.
SortKey(name, node) ==
    name

\* dir_entries.sort_by_key(util::name): the names of a directory in the
\* order of their keys (names are unique in a directory).
RECURSIVE SortedNames(_, _)
SortedNames(dir, names) ==
    IF names = {} THEN <<>>
    ELSE LET first == CHOOSE n \in names :
                          \A m \in names \ {n} :
                              StrLess(SortKey(n, dir[n]), SortKey(m, dir[m]))
         IN  <<first>> \o SortedNames(dir, names \ {first})

\* render_file: the row of a regular file.
render_file(name, node) ==
    Str_100644 \o <<SP>> \o name \o <<NUL>> \o generate_raw(node.content)

\* write_tree on directory dir with the store s: the rows of the sorted
\* entries other than .git are rendered in order (render_dir writes the
\* subdirectory's tree first), the first error ends the call, and the rows
\* are written as a tree object.
RECURSIVE write_tree(_, _)
RECURSIVE RenderEntries(_, _, _, _)
RenderEntries(s, dir, names, content) ==
    IF names = <<>> THEN [kind |-> "ok", content |-> content, store |-> s]
    ELSE LET name == Head(names)
             node == dir[name]
         IN  IF name = Str_dotgit THEN RenderEntries(s, dir, Tail(names), content)
             ELSE IF node.kind = "file"
             THEN RenderEntries(s, dir, Tail(names), content \o render_file(name, node))
             ELSE IF node.kind = "dir"
             THEN LET sub == write_tree(s, node.entries)
                  IN  IF sub.kind # "ok"
                      THEN [kind |-> sub.kind, content |-> <<>>, store |-> sub.store]
                      ELSE RenderEntries(sub.store, dir, Tail(names),
                                         content \o Str_040000 \o <<SP>> \o name \o <<NUL>>
                                         \o to_bytes(sub.id))
             ELSE [kind |-> "err", content |-> <<>>, store |-> s]

write_tree(s, dir) ==
    LET rows == RenderEntries(s, dir, SortedNames(dir, DOMAIN dir), <<>>)
    IN  IF rows.kind # "ok" THEN [kind |-> rows.kind, id |-> <<>>, store |-> rows.store]
        ELSE write_gen(rows.store, "Tree", rows.content)

(***************************************************************************)
(* SpecTree: write_tree on a working directory of at most MaxDirEntries    *)
(* entries per directory, with subdirectories of regular files.            *)
(***************************************************************************)
EntryNames ==
    { <<97>>, <<97, 46>>, <<97, 48>> }

SmallSubsets(S, n) ==
    { T \in SUBSET S : Cardinality(T) <= n }

FileNodes ==
    { [kind |-> "file", content |-> c] : c \in {BlobA, BlobAB} }

\* The subdirectories: at most n regular files.
SubDirs(n) ==
    UNION { [names -> FileNodes] : names \in SmallSubsets(EntryNames, n) }

RootNodes(n) ==
    FileNodes \cup { [kind |-> "symlink"] }
    \cup { [kind |-> "dir", entries |-> d] : d \in SubDirs(n) }

GitDirNode ==
    [kind |-> "dir", entries |-> <<>>]

\* The working directories: .git and at most n other entries.
WorkDirs(n) ==
    UNION { { d @@ (Str_dotgit :> GitDirNode) : d \in [names -> RootNodes(n)] } :
              names \in SmallSubsets(EntryNames, n) }

InitTree ==
    /\ pc = "write_tree"
    /\ wd \in WorkDirs(MaxDirEntries)
    /\ input = [op |-> "write_tree"]
    /\ pack = <<>>
    /\ store = EmptyStore
    /\ count = 0
    /\ objs = <<>>
    /\ ret = NoRet

\* write_tree(git_dir, ".")
WriteTree ==
    /\ pc = "write_tree"
    /\ LET r == write_tree(store, wd)
       IN  /\ store' = r.store
           /\ ret' = [kind |-> r.kind, id |-> r.id]
           /\ pc' = IF r.kind = "ok" THEN "done" ELSE "failed"
    /\ UNCHANGED <<input, pack, count, objs, wd>>

NextTree ==
    WriteTree

SpecTree ==
    InitTree /\ [][NextTree]_vars

(***************************************************************************)
(* repo.rs and wtree.rs on the file system. The repository root is the     *)
(* directory wd; its entry .git holds HEAD, objects/ and refs/, and the    *)
(* loose objects under .git/objects/xx/ are the variable store.            *)
(***************************************************************************)
Str_HEAD == <<72, 69, 65, 68>>
Str_objects == <<111, 98, 106, 101, 99, 116, 115>>
Str_info == <<105, 110, 102, 111>>
Str_pack == <<112, 97, 99, 107>>
Str_refs == <<114, 101, 102, 115>>
Str_heads == <<104, 101, 97, 100, 115>>
Str_tags == <<116, 97, 103, 115>>
Str_master == <<109, 97, 115, 116, 101, 114>>

\* "ref: refs/heads/master\n"
HeadContent ==
    <<114, 101, 102, 58, SP>> \o Str_refs \o <<47>> \o Str_heads \o <<47>>
    \o Str_master \o <<LF>>

FileNode(content) ==
    [kind |-> "file", content |-> content]

DirNode(entries) ==
    [kind |-> "dir", entries |-> entries]

\* fs::create_dir_all(dir/path): every missing component is created; a
\* component that exists and is no directory is an error, and what was
\* created before it stays.
RECURSIVE create_dir_all(_, _)
create_dir_all(dir, path) ==
    IF path = <<>> THEN [kind |-> "ok", dir |-> dir]
    ELSE LET n == Head(path)
         IN  IF n \in DOMAIN dir /\ dir[n].kind # "dir"
             THEN [kind |-> "err", dir |-> dir]
             ELSE LET sub == create_dir_all(IF n \in DOMAIN dir THEN dir[n].entries ELSE <<>>,
                                            Tail(path))
                  IN  [kind |-> sub.kind, dir |-> (n :> DirNode(sub.dir)) @@ dir]

\* fs::write(dir/path, content): the file is created or truncated; the
\* parent must be a directory and the target must not be one.
RECURSIVE fs_write(_, _, _)
fs_write(dir, path, content) ==
    LET n == Head(path)
    IN  IF Len(path) = 1
        THEN IF n \in DOMAIN dir /\ dir[n].kind = "dir"
             THEN [kind |-> "err", dir |-> dir]
             ELSE [kind |-> "ok", dir |-> (n :> FileNode(content)) @@ dir]
        ELSE IF n \notin DOMAIN dir \/ dir[n].kind # "dir"
             THEN [kind |-> "err", dir |-> dir]
             ELSE LET sub == fs_write(dir[n].entries, Tail(path), content)
                  IN  [kind |-> sub.kind, dir |-> (n :> DirNode(sub.dir)) @@ dir]

\* repo::init(path) on the directory root: the four create_dir_all calls and
\* the write of HEAD, the first error ending the call.
InitSteps ==
    << <<Str_dotgit, Str_objects, Str_info>>,
       <<Str_dotgit, Str_objects, Str_pack>>,
       <<Str_dotgit, Str_refs, Str_heads>>,
       <<Str_dotgit, Str_refs, Str_tags>> >>

RECURSIVE InitDirs(_, _)
InitDirs(root, steps) ==
    IF steps = <<>> THEN [kind |-> "ok", dir |-> root]
    ELSE LET r == create_dir_all(root, Head(steps))
         IN  IF r.kind # "ok" THEN r ELSE InitDirs(r.dir, Tail(steps))

init(root) ==
    LET d == InitDirs(root, InitSteps)
    IN  IF d.kind # "ok" THEN d
        ELSE fs_write(d.dir, <<Str_dotgit, Str_HEAD>>, HeadContent)

\* wtree::clear: every entry of the root other than .git is removed
\* (remove_file for a regular file, remove_dir_all for anything else).
clear(root) ==
    [n \in DOMAIN root \cap {Str_dotgit} |-> root[n]]

ModeDir == 40000
ModeFile == 100644
ModeExec == 100755

\* wtree::checkout_tree on the entries dir of the directory parent, which
\* the caller has created: the entries of the tree are materialized in
\* order and the first error ends the call, leaving what was written.
RECURSIVE checkout_tree(_, _, _)
RECURSIVE CheckoutEntries(_, _, _)
CheckoutEntries(s, dir, entries) ==
    IF entries = <<>> THEN [kind |-> "ok", dir |-> dir]
    ELSE LET e == Head(entries)
         IN  IF e.mode = ModeDir
             THEN LET made == create_dir_all(dir, <<e.name>>)
                  IN  IF made.kind # "ok" THEN made
                      ELSE LET sub == checkout_tree(s, made.dir[e.name].entries, e.id)
                               dir1 == (e.name :> DirNode(sub.dir)) @@ made.dir
                           IN  IF sub.kind # "ok" THEN [kind |-> sub.kind, dir |-> dir1]
                               ELSE CheckoutEntries(s, dir1, Tail(entries))
             ELSE IF e.mode \in {ModeFile, ModeExec}
             THEN LET b == read_gen(s, e.id)
                  IN  IF b.kind # "ok" THEN [kind |-> b.kind, dir |-> dir]
                      ELSE IF b.obj.type # "Blob" THEN [kind |-> "err", dir |-> dir]
                      ELSE LET w == fs_write(dir, <<e.name>>, b.obj.content)
                           IN  IF w.kind # "ok" THEN w
                               ELSE CheckoutEntries(s, w.dir, Tail(entries))
             ELSE [kind |-> "err", dir |-> dir]

checkout_tree(s, dir, id) ==
    LET t == read_gen(s, id)
    IN  IF t.kind # "ok" THEN [kind |-> t.kind, dir |-> dir]
        ELSE IF t.obj.type # "Tree" THEN [kind |-> "err", dir |-> dir]
        ELSE CheckoutEntries(s, dir, t.obj.entries)

\* wtree::checkout(git_dir, commit) on the root directory.
checkout(s, root, commit) ==
    LET obj == read_gen(s, commit)
    IN  IF obj.kind # "ok" THEN [kind |-> obj.kind, dir |-> root]
        ELSE IF obj.obj.type # "Commit" THEN [kind |-> "err", dir |-> root]
        ELSE checkout_tree(s, clear(root), obj.obj.tree)

(***************************************************************************)
(* SpecCheckout: checkout of a commit of the store into a working          *)
(* directory, then write_tree of the root. The commits are built from      *)
(* snapshots: sequences of entries [mode, name, blob] and                  *)
(* [mode, name, tree], whose objects are stored as write_gen stores them. *)
(***************************************************************************)
Str_100755 == <<49, 48, 48, 55, 53, 53>>
Str_40000 == <<52, 48, 48, 48, 48>>
Str_120000 == <<49, 50, 48, 48, 48, 48>>

BlobEntry(mode, name, content) ==
    [mode |-> mode, name |-> name, blob |-> content]

TreeEntry(name, entries) ==
    [mode |-> Str_40000, name |-> name, tree |-> entries]

\* The id write_gen gives an object.
IdOf(obj_type, content) ==
    write_gen(EmptyStore, obj_type, content).id

\* The payload of the tree of a snapshot: a row mode, space, name, NUL, id
\* bytes for every entry, in order.
RECURSIVE TreeContent(_)
TreeContent(entries) ==
    IF entries = <<>> THEN <<>>
    ELSE LET e == Head(entries)
             id == IF "blob" \in DOMAIN e THEN IdOf("Blob", e.blob)
                   ELSE IdOf("Tree", TreeContent(e.tree))
         IN  e.mode \o <<SP>> \o e.name \o <<NUL>> \o to_bytes(id)
             \o TreeContent(Tail(entries))

\* "tree <id>\nauthor x\ncommitter x\n\nm\n"
CommitOf(tree_id) ==
    Str_tree \o <<SP>> \o tree_id \o <<LF>> \o Str_author \o <<SP, 120, LF>>
    \o Str_committer \o <<SP, 120, LF, LF, 109, LF>>

TreeIdOf(snap) ==
    IdOf("Tree", TreeContent(snap))

CommitIdOf(snap) ==
    IdOf("Commit", CommitOf(TreeIdOf(snap)))

\* The objects of a snapshot: its blobs, its subtrees and its tree.
RECURSIVE TreeObjects(_)
TreeObjects(entries) ==
    { [obj_type |-> "Tree", content |-> TreeContent(entries)] }
    \cup UNION { IF "blob" \in DOMAIN entries[i]
                 THEN { [obj_type |-> "Blob", content |-> entries[i].blob] }
                 ELSE TreeObjects(entries[i].tree) : i \in 1..Len(entries) }

\* The snapshots: an empty tree; one file; an executable file beside a
\* subdirectory; a file named "a b"; a subdirectory .git holding HEAD; a
\* file followed by a symbolic link (mode 120000).
Snapshots ==
    << <<>>,
       << BlobEntry(Str_100644, <<97>>, BlobA) >>,
       << BlobEntry(Str_100755, <<97, 46>>, BlobAB),
          TreeEntry(<<97>>, << BlobEntry(Str_100644, <<97>>, BlobA) >>) >>,
       << BlobEntry(Str_100644, <<97, SP, 98>>, BlobA) >>,
       << TreeEntry(Str_dotgit, << BlobEntry(Str_100644, Str_HEAD, BlobA) >>) >>,
       << BlobEntry(Str_100644, <<97>>, BlobA), BlobEntry(Str_120000, <<97, 48>>, BlobA) >> >>

\* A commit whose tree is not in the store.
DanglingCommit ==
    CommitOf(generate(BlobZ))

\* The payload of a tree object as unpack_objects stores it from a pack,
\* unparsed: the entry "100644 a" with 19 bytes of id.
TreeShortId ==
    Str_100644 \o <<SP, 97, NUL>> \o Take(to_bytes(IdOf("Blob", BlobA)), ShaLen - 1)

\* The store that holds what write_gen stores for each object of os.
StoreWith(os) ==
    LET written(o) == write_gen(EmptyStore, o.obj_type, o.content).store
        paths == UNION { DOMAIN written(o) : o \in os }
    IN  [p \in paths |-> written(CHOOSE o \in os : p \in DOMAIN written(o))[p]]

\* The store of a checkout: the objects of every snapshot, a commit of each
\* snapshot, the commit with the missing tree, and the tree with the short
\* id.
CheckoutStore ==
    StoreWith(UNION { TreeObjects(Snapshots[i]) : i \in 1..Len(Snapshots) }
              \cup { [obj_type |-> "Commit", content |-> CommitOf(TreeIdOf(Snapshots[i]))] :
                         i \in 1..Len(Snapshots) }
              \cup { [obj_type |-> "Commit", content |-> DanglingCommit],
                     [obj_type |-> "Tree", content |-> TreeShortId] })

\* What checkout is called with: the commit of a snapshot, the commit with
\* the missing tree, the tree of a snapshot, the tree with the short id, a
\* blob, or an id that is not in the store.
CheckoutTargets ==
    { [commit |-> CommitIdOf(Snapshots[i]), snap |-> i] : i \in 1..Len(Snapshots) }
    \cup { [commit |-> TreeIdOf(Snapshots[i]), snap |-> 0] : i \in 1..Len(Snapshots) }
    \cup { [commit |-> IdOf("Commit", DanglingCommit), snap |-> 0],
           [commit |-> IdOf("Tree", TreeShortId), snap |-> 0],
           [commit |-> IdOf("Blob", BlobA), snap |-> 0],
           [commit |-> generate(BlobZ), snap |-> 0] }

\* The directory .git as init leaves it.
GitLayout ==
    DirNode((Str_HEAD :> FileNode(HeadContent))
            @@ (Str_objects :> DirNode((Str_info :> DirNode(<<>>)) @@ (Str_pack :> DirNode(<<>>))))
            @@ (Str_refs :> DirNode((Str_heads :> DirNode(<<>>)) @@ (Str_tags :> DirNode(<<>>)))))

\* What lies in the root before a checkout, beside .git.
RootNodesBefore ==
    { FileNode(BlobAB), [kind |-> "symlink"], DirNode(<<97>> :> FileNode(BlobA)) }

RootsBefore ==
    UNION { { d @@ (Str_dotgit :> GitLayout) : d \in [names -> RootNodesBefore] } :
              names \in SmallSubsets(EntryNames, MaxDirEntries) }

InitCheckout ==
    /\ pc = "checkout"
    /\ wd \in RootsBefore
    /\ store = CheckoutStore
    /\ input = [op |-> "none"]
    /\ pack = <<>>
    /\ count = 0
    /\ objs = <<>>
    /\ ret = NoRet

\* checkout(git_dir, commit)
Checkout ==
    /\ pc = "checkout"
    /\ \E t \in CheckoutTargets :
          LET r == checkout(store, wd, t.commit)
          IN  /\ input' = [op |-> "checkout", commit |-> t.commit, snap |-> t.snap,
                           before |-> wd]
              /\ wd' = r.dir
              /\ ret' = [kind |-> r.kind]
              /\ pc' = CASE r.kind = "ok" -> "write_tree"
                         [] r.kind = "err" -> "failed"
                         [] OTHER -> "panicked"
    /\ UNCHANGED <<pack, count, objs, store>>

NextCheckout ==
    Checkout \/ WriteTree

SpecCheckout ==
    InitCheckout /\ [][NextCheckout]_vars

(***************************************************************************)
(* SpecInit: at most MaxInits calls of init on a directory in which .git   *)
(* is missing, is a file, or holds a part of the layout; the store is      *)
(* empty or holds a blob.                                                  *)
(***************************************************************************)
\* Directories with some of the empty subdirectories named in names.
DirsOfDirs(names) ==
    { DirNode([n \in ns |-> DirNode(<<>>)]) : ns \in SUBSET names }

HeadNodes ==
    { FileNode(HeadContent), FileNode(BlobA), DirNode(<<>>) }

ObjectsNodes ==
    { FileNode(<<>>) } \cup DirsOfDirs({Str_info, Str_pack})

RefsNodes ==
    { FileNode(<<>>) } \cup DirsOfDirs({Str_heads, Str_tags})

GitDirs ==
    { DirNode(h @@ o @@ r) :
        h \in { <<>> } \cup { Str_HEAD :> x : x \in HeadNodes },
        o \in { <<>> } \cup { Str_objects :> x : x \in ObjectsNodes },
        r \in { <<>> } \cup { Str_refs :> x : x \in RefsNodes } }

InitRoots ==
    { <<>>, Str_dotgit :> FileNode(<<>>) } \cup { Str_dotgit :> g : g \in GitDirs }

\* Loose objects lie in subdirectories of .git/objects.
HoldsStore(root, s) ==
    s # EmptyStore =>
        /\ Str_dotgit \in DOMAIN root
        /\ root[Str_dotgit].kind = "dir"
        /\ Str_objects \in DOMAIN root[Str_dotgit].entries
        /\ root[Str_dotgit].entries[Str_objects].kind = "dir"

InitInit ==
    /\ pc = "init"
    /\ wd \in InitRoots
    /\ store \in Stores
    /\ HoldsStore(wd, store)
    /\ input = [op |-> "none"]
    /\ pack = <<>>
    /\ count = 0
    /\ objs = <<>>
    /\ ret = NoRet

\* init(path); count counts the calls.
RepoInit ==
    /\ pc \in {"init", "inited", "failed"}
    /\ count < MaxInits
    /\ LET r == init(wd)
       IN  /\ wd' = r.dir
           /\ ret' = [kind |-> r.kind]
           /\ pc' = IF r.kind = "ok" THEN "inited" ELSE "failed"
    /\ input' = [op |-> "init", before |-> wd]
    /\ count' = count + 1
    /\ UNCHANGED <<pack, objs, store>>

NextInit ==
    RepoInit

SpecInit ==
    InitInit /\ [][NextInit]_vars

(***************************************************************************)
(* pack.rs, module http: pkt-lines.                                        *)
(***************************************************************************)
\* The value of a hex digit of either case as from_str_radix(_, 16) takes
\* it, 16 for a byte that is no digit.
Radix16Digit(c) ==
    IF c \in 48..57 THEN c - 48
    ELSE IF c \in 97..102 THEN c - 87
    ELSE IF c \in 65..70 THEN c - 55
    ELSE 16

RECURSIVE Radix16Value(_, _)
Radix16Value(d, acc) ==
    IF d = <<>> THEN acc ELSE Radix16Value(Tail(d), acc * 16 + Radix16Digit(Head(d)))

\* usize::from_str_radix(s, 16): an optional '+', then one or more hex
\* digits.
from_str_radix16(s) ==
    LET d == IF s # <<>> /\ s[1] = 43 THEN Tail(s) ELSE s
    IN  IF d = <<>> \/ \E i \in 1..Len(d) : Radix16Digit(d[i]) = 16
        THEN [kind |-> "err", val |-> 0]
        ELSE [kind |-> "ok", val |-> Radix16Value(d, 0)]

\* str::trim_end_matches('\n')
RECURSIVE trim_end_matches(_, _)
trim_end_matches(s, c) ==
    IF s # <<>> /\ s[Len(s)] = c THEN trim_end_matches(Take(s, Len(s) - 1), c) ELSE s

PktLenSize == 4

\* http::parse_pkt_line on the cursor bytes: the String it returns and the
\* cursor it leaves. split_to panics past the end of the cursor, and so does
\* len - 4 (or the split_to after it wrapped) for a len of 1, 2 or 3.
parse_pkt_line(bytes) ==
    IF Len(bytes) < PktLenSize THEN [kind |-> "panic", data |-> <<>>, bytes |-> bytes]
    ELSE LET len_str == Take(bytes, PktLenSize)
             rest == Drop(bytes, PktLenSize)
             len == from_str_radix16(len_str)
         IN  IF ~IsUtf8(len_str) \/ len.kind = "err"
             THEN [kind |-> "err", data |-> <<>>, bytes |-> rest]
             ELSE IF len.val = 0 THEN [kind |-> "ok", data |-> <<>>, bytes |-> rest]
             ELSE IF len.val < PktLenSize \/ len.val - PktLenSize > Len(rest)
             THEN [kind |-> "panic", data |-> <<>>, bytes |-> rest]
             ELSE LET data == Take(rest, len.val - PktLenSize)
                      left == Drop(rest, len.val - PktLenSize)
                  IN  IF ~IsUtf8(data) THEN [kind |-> "err", data |-> <<>>, bytes |-> left]
                      ELSE [kind |-> "ok", data |-> trim_end_matches(data, LF),
                            bytes |-> left]

(***************************************************************************)
(* SpecPkt: the pkt-lines of a byte string are parsed one after another,   *)
(* as get_advertised_refs::pkt_lines does. The byte strings are sequences  *)
(* of at most MaxFrames well-formed frames, and some malformed ones.       *)
(***************************************************************************)
Str_NAK == <<78, 65, 75>>
Str_0000 == <<48, 48, 48, 48>>

\* The length field of a frame: 4 lowercase hex digits.
PktLen(n) ==
    << HexChars[((n \div 4096) % 16) + 1], HexChars[((n \div 256) % 16) + 1],
       HexChars[((n \div 16) % 16) + 1], HexChars[(n % 16) + 1] >>

\* A data frame: the length of the data plus 4, then the data.
PktLine(data) ==
    PktLen(Len(data) + PktLenSize) \o data

PktData ==
    { <<>>, <<LF>>, <<97>>, <<97, LF>>, Str_NAK, Str_NAK \o <<LF>>, <<97, 255>> }

PktFrames ==
    { Str_0000 } \cup { PktLine(d) : d \in PktData }

PktStreams ==
    { Concat(fs) : fs \in UNION { [1..n -> PktFrames] : n \in 0..MaxFrames } }
    \cup { <<48, 48>>, <<48, 48, 48, 103>>, <<48, 48, 48, 51>>,
           <<48, 48, 48, 57, 97>>, <<48, 48, 48, 65, 97, 98, 99, 100, 101, 102>> }

InitPkt ==
    /\ pc = "pkt_lines"
    /\ pack \in PktStreams
    /\ input = [op |-> "none"]
    /\ store = EmptyStore
    /\ count = 0
    /\ objs = <<>>
    /\ wd = <<>>
    /\ ret = NoRet

\* One item of pkt_lines: None at the end of the bytes, else the pkt-line
\* parse_pkt_line returns; expect panics on an error.
ParsePktLine ==
    /\ pc = "pkt_lines"
    /\ IF Len(pack) = 0
       THEN /\ pc' = "done"
            /\ UNCHANGED <<pack, input, ret>>
       ELSE LET r == parse_pkt_line(pack)
            IN  /\ pc' = IF r.kind = "ok" THEN "pkt_lines" ELSE "panicked"
                /\ ret' = [kind |-> r.kind, data |-> r.data]
                /\ pack' = r.bytes
                /\ input' = [op |-> "parse_pkt_line", bytes |-> pack]
    /\ UNCHANGED <<count, objs, store, wd>>

NextPkt ==
    ParsePktLine

SpecPkt ==
    InitPkt /\ [][NextPkt]_vars

(***************************************************************************)
(* pack.rs, module http: get_advertised_refs and clone. An HTTP response   *)
(* has the status "ok" and a body, or the status "error" (send or          *)
(* error_for_status failed).                                               *)
(***************************************************************************)
Str_refs_heads_master ==
    Str_refs \o <<47>> \o Str_heads \o <<47>> \o Str_master

\* "want "
Str_want == <<119, 97, 110, 116, SP>>

\* "0009done\n"
Str_0009done == <<48, 48, 48, 57, 100, 111, 110, 101, LF>>

\* get_advertised_refs::parse_ref
parse_ref(pkt_line) ==
    LET ref_parts == Split(Split(pkt_line, NUL)[1], SP)
    IN  IF ~validate(ref_parts[1]) THEN Err("not a valid SHA")
        ELSE IF Len(ref_parts) < 2 THEN Err("Failed to parse ref pkt-line.")
        ELSE [kind |-> "ok", ref |-> [id |-> ref_parts[1], name |-> ref_parts[2]]]

\* The iterator chain of get_advertised_refs on the rest of the body: skip
\* pkt-lines, stop at the end of the bytes or at an empty pkt-line, parse
\* every other pkt-line as a ref and stop at the first error; pkt_lines
\* panics on a pkt-line it cannot parse. With refs_only, HEAD is left out.
RECURSIVE CollectRefs(_, _, _, _)
CollectRefs(bytes, skip, refs_only, refs) ==
    IF Len(bytes) = 0 THEN [kind |-> "ok", refs |-> refs]
    ELSE LET line == parse_pkt_line(bytes)
         IN  IF line.kind # "ok" THEN [kind |-> "panic", refs |-> <<>>]
             ELSE IF skip > 0 THEN CollectRefs(line.bytes, skip - 1, refs_only, refs)
             ELSE IF line.data = <<>> THEN [kind |-> "ok", refs |-> refs]
             ELSE LET r == parse_ref(line.data)
                  IN  IF r.kind # "ok" THEN [kind |-> "err", refs |-> <<>>]
                      ELSE CollectRefs(line.bytes, 0, refs_only,
                                       IF refs_only /\ r.ref.name = Str_HEAD THEN refs
                                       ELSE Append(refs, r.ref))

SkippedPktLines == 2

get_advertised_refs(response, refs_only) ==
    IF response.status # "ok" THEN [kind |-> "err", refs |-> <<>>]
    ELSE CollectRefs(response.body, SkippedPktLines, refs_only, <<>>)

\* A clone that takes the first advertised ref for its head.
FindHead_FirstRef(refs) ==
    IF refs = <<>> THEN 0 ELSE 1

\* clone: the ref named refs/heads/master, None (0) without one.
FindHead(refs) ==
    IF \E i \in 1..Len(refs) : refs[i].name = Str_refs_heads_master
    THEN CHOOSE i \in 1..Len(refs) :
             /\ refs[i].name = Str_refs_heads_master
             /\ \A j \in 1..(i - 1) : refs[j].name # Str_refs_heads_master
    ELSE 0

\* clone: the body of the POST.
RECURSIVE Wants(_)
Wants(refs) ==
    IF refs = <<>> THEN <<>>
    ELSE <<48, 48, 51, 50>> \o Str_want \o Head(refs).id \o <<LF>> \o Wants(Tail(refs))

PostBody(refs) ==
    Wants(refs) \o Str_0000 \o Str_0009done

\* clone, after the POST: the response is read.
CloneResult(head, response) ==
    IF response.status # "ok" THEN Err("http")
    ELSE LET line == parse_pkt_line(response.body)
         IN  IF line.kind # "ok" THEN [kind |-> line.kind, msg |-> "parse_pkt_line"]
             ELSE IF line.data = Str_NAK
             THEN [kind |-> "ok", head |-> head, bytes |-> line.bytes]
             ELSE Err("Missing 'NAK'.")

(***************************************************************************)
(* SpecClone: clone against a server that answers the GET with one of      *)
(* RefResponses and the POST with one of PackResponses. input.sent is the  *)
(* list of the requests sent so far.                                       *)
(***************************************************************************)
\* "# service=git-upload-pack\n"
Str_service ==
    <<35, SP, 115, 101, 114, 118, 105, 99, 101, 61, 103, 105, 116, 45, 117, 112,
      108, 111, 97, 100, 45>> \o Str_pack \o <<LF>>

\* "refs/heads/dev"
Str_refs_heads_dev ==
    Str_refs \o <<47>> \o Str_heads \o <<47, 100, 101, 118>>

\* The ref lines a server may send, as id, name and what follows the name:
\* HEAD with capabilities, master, another branch, a tag, a line with a
\* short id, a line without a name.
RefLines ==
    { [id |-> generate(BlobA), name |-> Str_HEAD, tail |-> <<NUL, 120, LF>>],
      [id |-> generate(BlobA), name |-> Str_refs_heads_master, tail |-> <<LF>>],
      [id |-> generate(BlobAB), name |-> Str_refs_heads_dev, tail |-> <<LF>>],
      [id |-> generate(BlobZ), name |-> Str_refs \o <<47>> \o Str_tags \o <<47, 118>>,
       tail |-> <<LF>>],
      [id |-> <<97, 98, 99>>, name |-> Str_refs_heads_master, tail |-> <<LF>>],
      [id |-> generate(BlobAB), name |-> <<>>, tail |-> <<LF>>] }

RefLineSeqs ==
    UNION { [1..n -> RefLines] : n \in 0..MaxRefs }

\* "<id> <name>" and the tail; a line without a name has no space either.
RenderRef(l) ==
    l.id \o (IF l.name = <<>> THEN <<>> ELSE <<SP>> \o l.name) \o l.tail

Advertisement(lines) ==
    PktLine(Str_service) \o Str_0000
    \o Concat([i \in 1..Len(lines) |-> PktLine(RenderRef(lines[i]))]) \o Str_0000

\* A response with a body; lines tells what the body was made of (the ref
\* lines of a whole advertisement, nothing otherwise).
HttpOk(body, lines, whole) ==
    [status |-> "ok", body |-> body, lines |-> lines, whole |-> whole]

HttpError ==
    [status |-> "error", body |-> <<>>, lines |-> <<>>, whole |-> FALSE]

\* Answers to the GET: an advertisement, one cut short in its last
\* pkt-line, an empty body, an HTTP error.
RefResponses ==
    { HttpOk(Advertisement(ls), ls, TRUE) : ls \in RefLineSeqs }
    \cup { HttpOk(Take(Advertisement(ls), Len(Advertisement(ls)) - 6), <<>>, FALSE) :
               ls \in RefLineSeqs }
    \cup { HttpOk(<<>>, <<>>, FALSE), HttpError }

\* Answers to the POST: NAK and a pack, NAK without the line feed, ACK,
\* a flush-pkt, a body too short for a pkt-len, an empty body, an HTTP error.
PackResponses ==
    { HttpOk(PktLine(Str_NAK \o <<LF>>) \o Str_PACK, <<>>, TRUE),
      HttpOk(PktLine(Str_NAK) \o Str_PACK, <<>>, TRUE),
      HttpOk(PktLine(<<65, 67, 75, LF>>) \o Str_PACK, <<>>, TRUE),
      HttpOk(Str_0000 \o Str_PACK, <<>>, TRUE),
      HttpOk(<<48, 48>>, <<>>, FALSE),
      HttpOk(<<>>, <<>>, FALSE),
      HttpError }

InitClone ==
    /\ pc = "clone"
    /\ input = [op |-> "clone", sent |-> <<>>]
    /\ pack = <<>>
    /\ store = EmptyStore
    /\ count = 0
    /\ objs = <<>>
    /\ wd = <<>>
    /\ ret = NoRet

\* clone, first step: get_advertised_refs(http, url, true) sends the GET.
GetAdvertisedRefs ==
    /\ pc = "clone"
    /\ \E response \in RefResponses :
          LET r == get_advertised_refs(response, TRUE)
          IN  /\ input' = [op |-> "clone",
                           sent |-> << [method |-> "GET"] >>,
                           advertised |-> response]
              /\ ret' = r
              /\ pc' = CASE r.kind = "ok" -> "find_head"
                         [] r.kind = "err" -> "failed"
                         [] OTHER -> "panicked"
    /\ UNCHANGED <<pack, count, objs, store, wd>>

\* clone, the rest: without refs/heads/master it returns the error; else
\* it sends the POST and reads the response.
PostWants ==
    /\ pc = "find_head"
    /\ LET head == FindHead(ret.refs)
       IN  IF head = 0
           THEN /\ ret' = Err("Remote did not advertise HEAD.")
                /\ pc' = "failed"
                /\ UNCHANGED <<input, pack>>
           ELSE \E response \in PackResponses :
                   LET r == CloneResult(ret.refs[head], response)
                   IN  /\ input' = [input EXCEPT
                                       !.sent = Append(@, [method |-> "POST",
                                                           body |-> PostBody(ret.refs)])]
                                   @@ [refs |-> ret.refs, response |-> response]
                       /\ ret' = r
                       /\ pack' = IF r.kind = "ok" THEN r.bytes ELSE pack
                       /\ pc' = CASE r.kind = "ok" -> "done"
                                  [] r.kind = "err" -> "failed"
                                  [] OTHER -> "panicked"
    /\ UNCHANGED <<count, objs, store, wd>>

NextClone ==
    GetAdvertisedRefs \/ PostWants

SpecClone ==
    InitClone /\ [][NextClone]_vars

(***************************************************************************)
(* SpecSha: the constructors of Sha on strings of 39, 40 and 41 characters *)
(* and on slices of 19, 20 and 21 bytes.                                   *)
(***************************************************************************)
\* Sha::from_str and Sha::from_string
from_str(s) ==
    IF validate(s) THEN [kind |-> "ok", sha |-> s] ELSE Err("not a valid SHA")

\* Sha::from_bytes
from_bytes(b) ==
    IF validate_bytes(b) THEN [kind |-> "ok", sha |-> print_hex(b)]
    ELSE Err("not a valid SHA")

\* '0', 'a', 'f', 'A', 'F', 'g', ' '
ShaChars ==
    {48, 97, 102, 65, 70, 103, SP}

\* Strings of c1 that end with c2.
ShaStrings ==
    { [i \in 1..n |-> IF i = n THEN c2 ELSE c1] :
        n \in (HexLen - 1)..(HexLen + 1), c1 \in ShaChars, c2 \in ShaChars }

ShaSlices ==
    { [i \in 1..n |-> IF i = n THEN b2 ELSE b1] :
        n \in (ShaLen - 1)..(ShaLen + 1), b1 \in {0, 171}, b2 \in {0, 255} }

InitSha ==
    /\ pc = "sha"
    /\ input \in [op : {"from_str", "from_string"}, arg : ShaStrings]
                 \cup [op : {"from_bytes"}, arg : ShaSlices]
    /\ pack = <<>>
    /\ store = EmptyStore
    /\ count = 0
    /\ objs = <<>>
    /\ wd = <<>>
    /\ ret = NoRet

FromStr ==
    /\ pc = "sha"
    /\ input.op \in {"from_str", "from_string"}
    /\ ret' = from_str(input.arg)
    /\ pc' = "done"
    /\ UNCHANGED <<input, pack, count, objs, store, wd>>

FromBytes ==
    /\ pc = "sha"
    /\ input.op = "from_bytes"
    /\ ret' = from_bytes(input.arg)
    /\ pc' = "done"
    /\ UNCHANGED <<input, pack, count, objs, store, wd>>

NextSha ==
    FromStr \/ FromBytes

SpecSha ==
    InitSha /\ [][NextSha]_vars

(***************************************************************************)
(* SpecParseTree: parse_tree on payloads made of at most MaxTreeEntries    *)
(* whole entries and a tail: nothing, or bytes that are no whole entry.    *)
(***************************************************************************)
\* A whole entry: mode, space, name, NUL, 20 id bytes.
TreeRow(mode, name, id_bytes) ==
    mode \o <<SP>> \o name \o <<NUL>> \o id_bytes

TreeRows ==
    { TreeRow(Str_100644, <<97>>, BlobIdBytes(BlobA)),
      TreeRow(Str_100755, <<98>>, BlobIdBytes(BlobAB)),
      TreeRow(Str_40000, <<99>>, to_bytes(IdOf("Tree", <<>>))) }

\* Tails: none; one byte; a mode and a name without NUL; an entry cut after
\* its NUL; an entry with 19 id bytes; a NUL alone; a NUL and 20 bytes.
TreeTails ==
    { <<>>,
      <<120>>,
      Str_100644 \o <<SP, 97>>,
      Str_100644 \o <<SP, 97, NUL>>,
      Take(TreeRow(Str_100644, <<97>>, BlobIdBytes(BlobA)), 28),
      <<NUL>>,
      <<NUL>> \o BlobIdBytes(BlobA) }

InitParseTree ==
    /\ pc = "parse_tree"
    /\ \E rows \in UNION { [1..n -> TreeRows] : n \in 0..MaxTreeEntries }, tail \in TreeTails :
          input = [op |-> "parse_tree", rows |-> rows, tail |-> tail,
                   bytes |-> Concat(rows) \o tail]
    /\ pack = <<>>
    /\ store = EmptyStore
    /\ count = 0
    /\ objs = <<>>
    /\ wd = <<>>
    /\ ret = NoRet

\* parse_tree(bytes)
ParseTree ==
    /\ pc = "parse_tree"
    /\ ret' = parse_tree(input.bytes)
    /\ pc' = CASE ret'.kind = "ok" -> "done"
               [] ret'.kind = "err" -> "failed"
               [] OTHER -> "panicked"
    /\ UNCHANGED <<input, pack, count, objs, store, wd>>

NextParseTree ==
    ParseTree

SpecParseTree ==
    InitParseTree /\ [][NextParseTree]_vars

(***************************************************************************)
(* Properties of the pack reader (SpecPack).                               *)
(***************************************************************************)
\* The type words of the object store: commit, tree, blob, tag.
TypeWord(obj_type) ==
    CASE obj_type = "Commit" -> Str_commit
      [] obj_type = "Tree" -> Str_tree
      [] obj_type = "Blob" -> Str_blob
      [] obj_type = "Tag" -> Str_tag

\* The id of an object: the hex SHA-1 of "<type> <len>\0" + payload.
OidOf(obj_type, content) ==
    generate(Framed(TypeWord(obj_type), content))

\* C1: when unpack_objects returns successfully on a pack whose header
\* passed parse_header with object count N, the count it returns equals N.
C1_PersistedEqualsCount ==
    pc = "done" => ret.val = count

\* A pack whose last 20 bytes are not the SHA-1 of the bytes before them.
BadTrailer(p) ==
    /\ Len(p) >= ShaLen
    /\ Sha1Digest(Take(p, Len(p) - ShaLen)) # Drop(p, Len(p) - ShaLen)

\* C2: on a pack with a bad trailer parse_header returns an error, raised
\* by the checksum step with the signature, version and count still
\* unconsumed at the front of the cursor, and nothing is unpacked: the
\* table of decoded entries stays empty and the object store is unchanged.
C2_BadTrailerRejected ==
    (BadTrailer(input.pack) /\ pc # "parse_header") =>
        /\ pc = "failed"
        /\ ret = [kind |-> "err", msg |-> "checksum"]
        /\ pack = Take(input.pack, Len(input.pack) - ShaLen)
        /\ objs = <<>>
        /\ store = input.store

C2_Witness ==
    /\ pc = "failed"
    /\ BadTrailer(input.pack)
    /\ Len(input.pack) > 12 + ShaLen
    /\ Take(input.pack, 4) # Str_PACK

\* The entry at the front of cursor p is a REF_DELTA with its 20-byte base id.
HeadIsRefDelta(p) ==
    /\ p # <<>>
    /\ EntryTypeBits(p[1]) = 7
    /\ Position(p, NoContBit) > 0
    /\ Len(p) - Position(p, NoContBit) >= ShaLen

HeadBaseId(p) ==
    print_hex(SubSeq(p, Position(p, NoContBit) + 1, Position(p, NoContBit) + ShaLen))

\* C3: an iteration of unpack_objects on a REF_DELTA entry whose base id is
\* not a key of the table of decoded entries ends unpack_objects with an
\* error and writes nothing; once it has failed, nothing more is processed.
C3_UnknownBaseFails ==
    [][ /\ (pc = "unpack_objects" /\ HeadIsRefDelta(pack)
               /\ HeadBaseId(pack) \notin DOMAIN objs)
           => (pc' = "failed" /\ ret'.kind = "err" /\ store' = store /\ objs' = objs)
        /\ pc = "failed" => (pc' = "failed" /\ store' = store /\ objs' = objs)
      ]_vars

\* The base is in the object store on disk, but no entry of the pack put it
\* into the table; the entries after the delta are left on the cursor.
C3_Witness ==
    /\ pc = "failed"
    /\ ret = Err("Found delta referencing unknown base object")
    /\ ObjPath(OidOf("Blob", BlobA)) \in DOMAIN store
    /\ Len(pack) > Len(deflate(DeltaAtoAB))

\* The entry at the front of cursor p is of type t, with a payload that inflates.
HeadIsRaw(p, t) ==
    /\ p # <<>>
    /\ EntryTypeBits(p[1]) = t
    /\ Position(p, NoContBit) > 0
    /\ inflate(Drop(p, Position(p, NoContBit))).kind = "ok"

HeadPayload(p) ==
    inflate(Drop(p, Position(p, NoContBit))).content

\* C4: an iteration of unpack_objects on an entry of type 1, 2, 3 or 4
\* writes the inflated payload to the object store as an object of that
\* type and adds (type, raw bytes) to the table under the object's id.
C4_RawEntryWritten ==
    [][ \A t \in 1..4 :
          (pc = "unpack_objects" /\ HeadIsRaw(pack, t)) =>
              LET obj_type == ObjTypeOfEntry(t)
                  content == HeadPayload(pack)
                  id == OidOf(obj_type, content)
              IN  /\ ObjPath(id) \in DOMAIN store'
                  /\ store'[ObjPath(id)] = deflate(Framed(TypeWord(obj_type), content))
                  /\ id \in DOMAIN objs'
                  /\ objs'[id] = [obj_type |-> obj_type, content |-> content]
      ]_vars

(***************************************************************************)
(* Properties of the delta interpreter (SpecDelta).                        *)
(***************************************************************************)
DeclaredSourceLen(delta) ==
    parse_var_int(delta)

DeclaredTargetLen(delta) ==
    parse_var_int(parse_var_int(delta).rest)

HasBothLengths(delta) ==
    /\ DeclaredSourceLen(delta).kind = "ok"
    /\ DeclaredTargetLen(delta).kind = "ok"

\* C5: undeltify returns an error when the declared source length differs
\* from the length of the base; it returns an error when the instructions
\* have been applied and the target's length differs from the declared
\* target length; a target is returned only when both lengths match.
C5_LengthsChecked ==
    (pc = "done" /\ HasBothLengths(input.delta)) =>
        LET sl == DeclaredSourceLen(input.delta).val
            tl == DeclaredTargetLen(input.delta).val
            applied == ApplyInstrs(DeclaredTargetLen(input.delta).rest, input.base, <<>>)
        IN  /\ sl # Len(input.base) => ret.kind = "err"
            /\ (sl = Len(input.base) /\ applied.kind = "ok" /\ Len(applied.content) # tl)
                   => ret.kind = "err"
            /\ ret.kind = "ok" => (sl = Len(input.base) /\ tl = Len(ret.content))

\* The source length is right and the instructions run, but they build a
\* target of another length than declared.
C5_Witness ==
    /\ pc = "done"
    /\ HasBothLengths(input.delta)
    /\ DeclaredSourceLen(input.delta).val = Len(input.base)
    /\ DeclaredTargetLen(input.delta).rest # <<>>
    /\ ret.kind = "err"
    /\ ret.msg = "Delta target length"

\* C6: a copy instruction whose decoded size is zero copies 0x10000 bytes
\* of the base from the decoded offset (here for the first instruction of
\* a delta whose declared source length is the length of the base, so that
\* undeltify executes it).
C6_ZeroSizeCopy ==
    (pc = "done" /\ HasBothLengths(input.delta)) =>
        LET body == DeclaredTargetLen(input.delta).rest
            offset == ReadSelected(body[1], 0, 3, Tail(body), <<>>)
            size == ReadSelected(body[1], 4, 6, offset.rest, <<>>)
            copy == parse_copy_instr(body).instr
        IN  (/\ DeclaredSourceLen(input.delta).val = Len(input.base)
             /\ body # <<>>
             /\ body[1] >= 128
             /\ size.kind = "ok"
             /\ from_le_bytes(Append(size.vals, 0)) = 0)
            => (/\ copy.start = from_le_bytes(offset.vals)
                /\ copy.end = copy.start + 65536)

(***************************************************************************)
(* Properties of the object store (SpecObj).                               *)
(***************************************************************************)
\* C7: write_gen of (type, payload) returns oid = sha1("<type> <len>\0" +
\* payload) and leaves the framed bytes at objects/<oid[0..2]>/<oid[2..]>;
\* when the store already held that object, the store is the same as before.
C7_WriteIdempotent ==
    (input.op = "write_gen") =>
        LET o == input.obj
            framed == Framed(TypeWord(o.obj_type), o.content)
            oid == generate(framed)
        IN  /\ ret.kind = "ok"
            /\ ret.id = oid
            /\ <<Take(oid, 2), Drop(oid, 2)>> \in DOMAIN store
            /\ inflate(store[<<Take(oid, 2), Drop(oid, 2)>>]).content = framed
            /\ \A path \in DOMAIN input.before :
                   path \in DOMAIN store /\ (path # ObjPath(oid) => store[path] = input.before[path])
            /\ ObjPath(oid) \in DOMAIN input.before => store = input.before

\* The payload that holds what an object in memory holds: a blob's bytes, a
\* tree's entries in order (mode, space, name, NUL, 20 id bytes), a commit's
\* fields as header lines.
RECURSIVE EntriesPayload(_)
EntriesPayload(entries) ==
    IF entries = <<>> THEN <<>>
    ELSE Decimal(Head(entries).mode) \o <<SP>> \o Head(entries).name \o <<NUL>>
         \o decode_hex(Head(entries).id) \o EntriesPayload(Tail(entries))

PayloadOf(obj) ==
    CASE obj.type = "Blob" -> obj.content
      [] obj.type = "Tree" -> EntriesPayload(obj.entries)
      [] obj.type = "Commit" -> Str_tree \o <<SP>> \o obj.tree \o <<LF>>

\* C8: reading the object written for a commit, tree or blob returns an
\* object of that type that holds the payload that was written.
C8_ReadReturnsWritten ==
    (pc = "read" /\ input.obj.obj_type \in {"Commit", "Tree", "Blob"}) =>
        /\ ret.kind = "ok"
        /\ ret.obj.type = input.obj.obj_type
        /\ PayloadOf(ret.obj) = input.obj.content

(***************************************************************************)
(* Properties of write_tree (SpecTree).                                    *)
(***************************************************************************)
\* The object stored at a path of the store, as read_gen decodes it.
StoredAt(s, path) ==
    read_gen(s, path[1] \o path[2])

\* The tree objects of a store.
StoredTrees(s) ==
    { StoredAt(s, path).obj : path \in { q \in DOMAIN s :
          StoredAt(s, q).kind = "ok" /\ StoredAt(s, q).obj.type = "Tree" } }

\* The key of canonical tree order: the name, with "/" appended for a directory.
CanonKey(e) ==
    IF e.mode = 40000 THEN e.name \o <<47>> ELSE e.name

\* C9: after a successful write_tree every tree object it wrote lists its
\* entries in canonical tree order.
C9_CanonicalOrder ==
    pc = "done" =>
        \A t \in StoredTrees(store) :
            \A i, j \in 1..Len(t.entries) :
                i < j => StrLess(CanonKey(t.entries[i]), CanonKey(t.entries[j]))

\* The contents of the regular files of a directory and its subdirectories,
\* .git left out.
RECURSIVE FileContents(_)
FileContents(dir) ==
    UNION { CASE dir[n].kind = "file" -> {dir[n].content}
              [] dir[n].kind = "dir" -> FileContents(dir[n].entries)
              [] OTHER -> {}
            : n \in DOMAIN dir \ {Str_dotgit} }

\* C10: after a successful write_tree every id in an entry of a tree object
\* it wrote names an object of the store, and for every regular file the
\* blob with oid = sha1("blob <len>\0" + file bytes) is in the store.
C10_TreeEntriesStored ==
    pc = "done" =>
        /\ \A t \in StoredTrees(store) :
               \A i \in 1..Len(t.entries) : ObjPath(t.entries[i].id) \in DOMAIN store
        /\ \A c \in FileContents(wd) : ObjPath(OidOf("Blob", c)) \in DOMAIN store

(***************************************************************************)
(* Properties of checkout (SpecCheckout).                                  *)
(***************************************************************************)
\* The directory a snapshot describes: a file for every blob entry and a
\* directory for every tree entry.
RECURSIVE DirOf(_)
DirOf(entries) ==
    [n \in { entries[i].name : i \in 1..Len(entries) } |->
        LET e == entries[CHOOSE i \in 1..Len(entries) : entries[i].name = n]
        IN  IF "blob" \in DOMAIN e THEN FileNode(e.blob) ELSE DirNode(DirOf(e.tree))]

\* A directory without its entry .git.
WithoutGit(dir) ==
    [n \in DOMAIN dir \ {Str_dotgit} |-> dir[n]]

\* The state after write_tree has followed a successful checkout.
TreeWrittenAfterCheckout ==
    input.op = "checkout" /\ "id" \in DOMAIN ret

\* C11: write_tree of the root after a successful checkout of a commit
\* returns the id of the commit's tree.
C11_CheckoutWriteTreeRoundTrip ==
    TreeWrittenAfterCheckout =>
        ret.kind = "ok" /\ ret.id = TreeIdOf(Snapshots[input.snap])

\* C12: after a successful checkout the root holds, beside .git, exactly
\* the files and directories of the commit's tree: what was there before is
\* gone, a tree entry is a directory, a blob entry is a file with the blob's
\* payload.
C12_RootIsCommitTree ==
    (input.op = "checkout" /\ pc = "write_tree") =>
        WithoutGit(wd) = WithoutGit(DirOf(Snapshots[input.snap]))

\* C13: a call of checkout, successful or not, leaves the directory .git and
\* the objects of the store as they were.
C13_CheckoutKeepsGitDir ==
    [][Checkout => (wd'[Str_dotgit] = wd[Str_dotgit] /\ store' = store)]_vars

(***************************************************************************)
(* Properties of init (SpecInit).                                          *)
(***************************************************************************)
IsDirAt(dir, name) ==
    name \in DOMAIN dir /\ dir[name].kind = "dir"

\* .git with objects/info, objects/pack, refs/heads, refs/tags and the HEAD
\* of a new repository.
HasLayout(root) ==
    /\ IsDirAt(root, Str_dotgit)
    /\ LET git == root[Str_dotgit].entries
       IN  /\ IsDirAt(git, Str_objects)
           /\ IsDirAt(git[Str_objects].entries, Str_info)
           /\ IsDirAt(git[Str_objects].entries, Str_pack)
           /\ IsDirAt(git, Str_refs)
           /\ IsDirAt(git[Str_refs].entries, Str_heads)
           /\ IsDirAt(git[Str_refs].entries, Str_tags)
           /\ Str_HEAD \in DOMAIN git
           /\ git[Str_HEAD] = FileNode(HeadContent)

\* C14: a successful init leaves the layout and HEAD; on a repository that
\* has the layout and no objects it succeeds and changes nothing; on a
\* repository whose .git holds objects it fails.
C14_InitLayoutAndRefusal ==
    input.op = "init" =>
        /\ ret.kind = "ok" => HasLayout(wd)
        /\ (store = EmptyStore /\ HasLayout(input.before)) =>
               (ret.kind = "ok" /\ wd = input.before)
        /\ store # EmptyStore => ret.kind = "err"

(***************************************************************************)
(* Properties of the pkt-line reader (SpecPkt).                            *)
(***************************************************************************)
\* The bytes start with a frame: 4 lowercase hex digits of a length that is
\* 0, or at least 4 and no more than the bytes there are.
FrameLen(bytes) ==
    Radix16Value(Take(bytes, PktLenSize), 0)

StartsWithFrame(bytes) ==
    /\ Len(bytes) >= PktLenSize
    /\ \A i \in 1..PktLenSize : \E v \in 1..16 : HexChars[v] = bytes[i]
    /\ FrameLen(bytes) = 0 \/ FrameLen(bytes) \in PktLenSize..Len(bytes)

\* C15: parse_pkt_line on bytes that start with a frame of length field N:
\* N = 0 takes 4 bytes off the cursor and gives the flush-pkt (the empty
\* String); any other N takes N bytes off the cursor and gives the N - 4
\* bytes of data that follow the length field.
C15_PktLineDecode ==
    (input.op = "parse_pkt_line" /\ StartsWithFrame(input.bytes)) =>
        LET n == FrameLen(input.bytes)
        IN  IF n = 0
            THEN ret.kind = "ok" /\ ret.data = <<>> /\ pack = Drop(input.bytes, PktLenSize)
            ELSE /\ ret.kind = "ok"
                 /\ ret.data = SubSeq(input.bytes, PktLenSize + 1, n)
                 /\ pack = Drop(input.bytes, n)

(***************************************************************************)
(* Properties of clone (SpecClone).                                        *)
(***************************************************************************)
\* The advertised refs a clone wants: every ref but HEAD.
RECURSIVE WantedLines(_)
WantedLines(lines) ==
    IF lines = <<>> THEN <<>>
    ELSE (IF Head(lines).name = Str_HEAD THEN <<>> ELSE <<Head(lines)>>)
         \o WantedLines(Tail(lines))

\* One "0032want <hex-oid>\n" per wanted ref, then "0000", then "0009done\n".
ExpectedBody(lines) ==
    Concat([i \in 1..Len(WantedLines(lines)) |->
               PktLine(Str_want \o WantedLines(lines)[i].id \o <<LF>>)])
    \o Str_0000 \o PktLine(<<100, 111, 110, 101, LF>>)

MasterAdvertised(lines) ==
    \E i \in 1..Len(lines) : lines[i].name = Str_refs_heads_master

\* The first pkt-line of a response is NAK.
FirstIsNAK(response) ==
    /\ response.status = "ok"
    /\ StartsWithFrame(response.body)
    /\ SubSeq(response.body, PktLenSize + 1, FrameLen(response.body))
           \in {Str_NAK, Str_NAK \o <<LF>>}

\* C16: clone sends the GET first and the POST second, nothing else; the
\* POST is sent only after an advertisement that was read without error and
\* names refs/heads/master, and its body is one want line per wanted ref,
\* "0000" and "0009done\n"; clone returns only after both requests and only
\* if the first pkt-line of the POST's response is NAK, and then it returns
\* the master ref and the bytes after that pkt-line.
C16_CloneProtocolOrder ==
    LET sent == input.sent
    IN  /\ Len(sent) <= 2
        /\ pc = "clone" <=> sent = <<>>
        /\ Len(sent) >= 1 => sent[1].method = "GET"
        /\ Len(sent) = 2 =>
               /\ sent[2].method = "POST"
               /\ input.advertised.whole
               /\ MasterAdvertised(input.advertised.lines)
               /\ sent[2].body = ExpectedBody(input.advertised.lines)
        /\ pc = "done" =>
               /\ Len(sent) = 2
               /\ FirstIsNAK(input.response)
               /\ ret.kind = "ok"
               /\ ret.head.name = Str_refs_heads_master
               /\ \E i \in 1..Len(input.advertised.lines) :
                      /\ input.advertised.lines[i].name = Str_refs_heads_master
                      /\ input.advertised.lines[i].id = ret.head.id
               /\ ret.bytes = Drop(input.response.body, FrameLen(input.response.body))
        /\ (Len(sent) = 2 /\ FirstIsNAK(input.response)) => pc = "done"

\* A clone that wanted two refs and got NAK and the pack.
C16_Witness ==
    /\ pc = "done"
    /\ Len(WantedLines(input.advertised.lines)) = 2
    /\ ret.bytes = Str_PACK

(***************************************************************************)
(* Properties of Sha (SpecSha).                                            *)
(***************************************************************************)
\* Exactly 40 characters, each of 0-9 or a-f.
IsLowerHex40(s) ==
    /\ Len(s) = HexLen
    /\ \A i \in 1..Len(s) : \E v \in 1..16 : HexChars[v] = s[i]

\* C17: a Sha that was constructed holds 40 lowercase hex characters:
\* from_str and from_string return an error for a string of another length
\* or with a character outside 0-9a-f, and from_bytes returns an error for
\* a slice of another length than 20.
C17_ShaIsLowercaseHex40 ==
    pc = "done" =>
        /\ ret.kind = "ok" => IsLowerHex40(ret.sha)
        /\ (input.op \in {"from_str", "from_string"} /\ ~IsLowerHex40(input.arg)) =>
               ret.kind = "err"
        /\ (input.op = "from_bytes" /\ Len(input.arg) # ShaLen) => ret.kind = "err"

(***************************************************************************)
(* Properties of parse_tree (SpecParseTree).                               *)
(***************************************************************************)
\* C18: parse_tree returns a tree only for a payload that is a
\* concatenation of whole entries; a payload with bytes after its last whole
\* entry, among them an entry with fewer than 20 id bytes, is an error.
C18_TreeTrailingBytesRejected ==
    (pc # "parse_tree" /\ input.tail # <<>>) => ret.kind = "err"

(***************************************************************************)
(* Properties of the rows write_tree writes (SpecTree).                    *)
(***************************************************************************)
\* The rows of a tree payload, taken as mode, space, name, NUL and 20 id
\* bytes; the mode is kept as the bytes before the first space.
RECURSIVE RawRows(_)
RawRows(payload) ==
    IF payload = <<>> THEN <<>>
    ELSE LET sp == Position(payload, {SP})
             nul == Position(payload, {NUL})
         IN  << [mode |-> Take(payload, sp - 1),
                 name |-> SubSeq(payload, sp + 1, nul - 1),
                 id |-> SubSeq(payload, nul + 1, nul + ShaLen)] >>
             \o RawRows(Drop(payload, nul + ShaLen))

\* The payloads of the tree objects of a store.
TreePayloads(s) ==
    { Drop(inflate(s[path]).content, Position(inflate(s[path]).content, {NUL})) :
        path \in { q \in DOMAIN s : Take(inflate(s[q]).content, 5) = Str_tree \o <<SP>> } }

\* C19: every row write_tree wrote is mode, space, name, NUL and 20 id
\* bytes, the mode without a leading zero: 40000 or 100644; and in the tree
\* of the root the row of a subdirectory has 40000, the row of a regular
\* file 100644.
C19_ModeWithoutLeadingZero ==
    pc = "done" =>
        /\ \A p \in TreePayloads(store) :
               \A i \in 1..Len(RawRows(p)) :
                   /\ RawRows(p)[i].mode \in {Str_40000, Str_100644}
                   /\ Len(RawRows(p)[i].id) = ShaLen
        /\ LET root == Drop(inflate(store[ObjPath(ret.id)]).content,
                            Position(inflate(store[ObjPath(ret.id)]).content, {NUL}))
           IN  \A i \in 1..Len(RawRows(root)) :
                   /\ RawRows(root)[i].name \in DOMAIN wd
                   /\ RawRows(root)[i].mode =
                          IF wd[RawRows(root)[i].name].kind = "dir" THEN Str_40000
                          ELSE Str_100644

(***************************************************************************)
(* The cursor of unpack_objects (SpecPack).                                *)
(***************************************************************************)
\* The entry streams of the model: whole entries laid end to end.
EntryStreams ==
    { Concat(es) : es \in EntrySeqs }

\* The length of the entry at the front of cursor p: its prefix up to the
\* first byte without continuation bit, 20 bytes of base id for a REF_DELTA,
\* and the compressed bytes the inflater reports as consumed.
EntryLen(p) ==
    LET prefix == Position(p, NoContBit)
        base == IF EntryTypeBits(p[1]) = 7 THEN ShaLen ELSE 0
    IN  prefix + base + inflate(Drop(p, prefix + base)).total_in

\* C20: an iteration of the loop of unpack_objects starts with the cursor at
\* the first byte of an entry; an iteration that processes an entry takes
\* exactly the entry's length off the front of the cursor; and the loop
\* ends normally exactly when the cursor is empty.
C20_CursorAtEntryStart ==
    [][ UnpackObjects =>
          /\ pack \in EntryStreams
          /\ pc' = "done" <=> pack = <<>>
          /\ pc' = "unpack_objects" =>
                 /\ EntryLen(pack) <= Len(pack)
                 /\ pack' = Drop(pack, EntryLen(pack))
      ]_vars

\* A blob entry and a REF_DELTA entry on it were processed and the loop
\* ended at the end of the entry stream.
C20_Witness ==
    /\ pc = "done"
    /\ pack = <<>>
    /\ {OidOf("Blob", BlobA), OidOf("Blob", BlobAB)} \subseteq DOMAIN objs
    /\ Len(input.pack) = 12 + Len(PackEntry(3, BlobA))
                         + Len(RefDeltaPackEntry(BlobIdBytes(BlobA), DeltaAtoAB)) + ShaLen

(***************************************************************************)
(* Properties of undeltify on malformed deltas (SpecDelta).                *)
(***************************************************************************)
\* C21: for every delta and every base, undeltify ends by returning a target
\* or an error value and never aborts: a copy past the end of the base, and
\* an instruction whose operand bytes run past the end of the delta, give an
\* error value.
C21_UndeltifyNeverAborts ==
    pc = "done" => ret.kind \in {"ok", "err"}

(***************************************************************************)
(* Properties of a refused checkout (SpecCheckout).                        *)
(***************************************************************************)
\* No object file lies at the path of the id.
ObjectMissing(s, id) ==
    ObjPath(id) \notin DOMAIN s

\* The object file of the id holds a header whose type word is not "commit".
ObjectNotACommit(s, id) ==
    /\ ObjPath(id) \in DOMAIN s
    /\ LET bytes == inflate(s[ObjPath(id)]).content
       IN  Take(bytes, Len(Str_commit) + 1) # Str_commit \o <<SP>>

\* C22: checkout called with an id whose object is missing or is not a
\* commit returns an error and leaves every file and directory of the root
\* as it was: the working directory is not cleared.
C22_RefusedCheckoutKeepsRoot ==
    [][ (Checkout /\ (\/ ObjectMissing(store, input'.commit)
                      \/ ObjectNotACommit(store, input'.commit)))
        => (ret'.kind = "err" /\ wd' = wd) ]_vars

====
